---- MODULE Spec2Model ----
(***************************************************************************)
(* BluetoothDeviceManager (src/bluez.py) and Agent (src/agent.py) driving  *)
(* the BlueZ daemon over D-Bus, and run (src/utils.py) spawning a shell    *)
(* command.  Each has its own specification: Spec, SpecAgent, SpecRun.     *)
(*                                                                         *)
(* The daemon's object tree and the adapter's Discovering flag are the     *)
(* remote state.  Every public operation of the manager is cut at its      *)
(* D-Bus calls: one action per call, so that the daemon (devices appearing *)
(* and disappearing, flags changing) can move between two calls of one     *)
(* operation.  Every D-Bus call can fail with a DBusException.             *)
(*                                                                         *)
(* Python strings that the code compares by prefix or substring (object    *)
(* paths) are sequences of tokens; a token is never split by the code.     *)
(***************************************************************************)
EXTENDS Integers, Sequences, FiniteSets, TLC

\* number of device object paths the daemon can expose
NumPaths == 2

-----------------------------------------------------------------------------
(* libraries.bluetooth.constants *)
bluez_path == <<"/", "org", "/", "bluez">>
device_interface == "org.bluez.Device1"
adapter_interface == "org.bluez.Adapter1"

(* Python's None for a path-valued name: falsy, like the empty string *)
None == <<>>

(* str.startswith *)
startswith(s, prefix) ==
    /\ Len(prefix) <= Len(s)
    /\ SubSeq(s, 1, Len(prefix)) = prefix

(* the `in` operator on two str *)
str_contains(sub, s) ==
    \E i \in 0..(Len(s) - Len(sub)) : SubSeq(s, i + 1, i + Len(sub)) = sub

(* dict.get(key, default) *)
dict_get(d, key, default) == IF key \in DOMAIN d THEN d[key] ELSE default

-----------------------------------------------------------------------------
(* The controllers of the host: hci1 and hci10 (the name of the first is a *)
(* prefix of the name of the second).                                      *)
Interfaces == {<<"hci1">>, <<"hci1", "0">>}

adapter_path_of(interface) == bluez_path \o <<"/">> \o interface

device_path_of(interface, node) == adapter_path_of(interface) \o <<"/", node>>

AllPaths ==
    << device_path_of(<<"hci1">>, "dev_1"),
       device_path_of(<<"hci1", "0">>, "dev_1"),
       device_path_of(<<"hci1">>, "dev_2"),
       device_path_of(<<"hci1", "0">>, "dev_2") >>

Paths == {AllPaths[i] : i \in 1..(IF NumPaths < Len(AllPaths) THEN NumPaths ELSE Len(AllPaths))}

Addresses == {"AA:BB", "00:11"}

(* the adapter a device object belongs to: its path without "/dev_x" *)
AdapterOf(path) == SubSeq(path, 1, Len(path) - 2)

(* the Name property: only the dev_1 nodes have resolved a name *)
HasName(path) == path[Len(path)] = "dev_1"

DeviceProps == [Address : Addresses, Paired : BOOLEAN, Connected : BOOLEAN]

Trees == UNION {[D -> DeviceProps] : D \in SUBSET Paths}

(* an adapter knows one device per address *)
UniqueAddresses(t) ==
    \A p, q \in DOMAIN t :
        (p # q /\ AdapterOf(p) = AdapterOf(q)) => t[p].Address # t[q].Address

VARIABLES
    tree,          \* daemon: device path -> properties, for the devices it knows
    discovering,   \* daemon: the Discovering property of the bound adapter
    self,          \* the fields of the BluetoothDeviceManager instance
    pc,            \* position of the running operation, "idle" between calls
    op,            \* the operation running, or the last one that ran
    address,       \* its argument
    device_path,   \* its local device_path / target_path
    ret,           \* how the last operation ended: "True" "False" "None" "Raised" "Value"
    retval,        \* the value it returned when ret = "Value"
    calls,         \* the D-Bus calls the operation has made, in order
    ghost,         \* what the daemon held when the operation looked at it
    prev,          \* the start_discovery call right before this one, if any
    agent,         \* the last Agent method the daemon invoked, with its outcome
    proc,          \* the process the last call of utils.run spawned
    frame          \* the last call of utils.run: its arguments, position and outcome

vars == <<tree, discovering, self, pc, op, address, device_path, ret, retval,
          calls, ghost, prev, agent, proc, frame>>

run_vars == <<proc, frame>>

mgr_vars == <<tree, discovering, self, pc, op, address, device_path, ret, retval,
              calls, ghost, prev>>

Call_rec(m, ok, v) == [m |-> m, ok |-> ok, v |-> v]

NoPrev == [valid |-> FALSE, disc0 |-> FALSE, calls |-> <<>>]

NoAgent == [method |-> "none"]

(* no call of run yet: no process, no frame *)
NoProc == [state |-> "none"]

NoFrame == [pc |-> "none", ret |-> "-"]

-----------------------------------------------------------------------------
(* BluetoothDeviceManager.__init__ *)
NewManager(interface) ==
    [ interface |-> interface,
      adapter_path |-> adapter_path_of(interface),
      last_session_path |-> None,
      opp_process |-> None,
      stream_process |-> None ]

Init ==
    /\ tree \in {t \in Trees : UniqueAddresses(t)}
    /\ discovering \in BOOLEAN
    /\ self \in {NewManager(i) : i \in Interfaces}
    /\ pc = "idle"
    /\ op = "none"
    /\ address = "AA:BB"
    /\ device_path = None
    /\ ret = "-"
    /\ retval = <<>>
    /\ calls = <<>>
    /\ ghost = [carried |-> FALSE, under |-> FALSE, disc0 |-> FALSE, touched |-> FALSE]
    /\ prev = NoPrev
    /\ agent = NoAgent
    /\ proc = NoProc
    /\ frame = NoFrame

-----------------------------------------------------------------------------
(* The reply of ObjectManager.GetManagedObjects: object path -> interface   *)
(* name -> properties.  The adapters are objects too, without Device1.      *)
GetManagedObjects ==
    [ p \in {adapter_path_of(i) : i \in Interfaces} \cup DOMAIN tree |->
        IF p \in DOMAIN tree
        THEN [ i \in {device_interface} |->
                 IF HasName(p)
                 THEN [ Address |-> tree[p].Address, Paired |-> tree[p].Paired,
                        Connected |-> tree[p].Connected, Adapter |-> AdapterOf(p),
                        Alias |-> "N1", Name |-> "N1" ]
                 ELSE [ Address |-> tree[p].Address, Paired |-> tree[p].Paired,
                        Connected |-> tree[p].Connected, Adapter |-> AdapterOf(p),
                        Alias |-> tree[p].Address ] ]
        ELSE [ i \in {adapter_interface} |-> [Powered |-> TRUE] ] ]

(* some device of the tree carries the address *)
Carried(a) == \E p \in DOMAIN tree : tree[p].Address = a

(* some device of the bound adapter carries the address *)
CarriedUnderBound(a) ==
    \E p \in DOMAIN tree : tree[p].Address = a /\ AdapterOf(p) = self.adapter_path

-----------------------------------------------------------------------------
(* The caller: one operation at a time on the one manager instance. *)
Ops == { "unpair_device", "pair", "connect", "disconnect", "start_discovery",
         "stop_discovery", "register_agent", "get_paired_devices",
         "get_discovered_devices", "get_device_address_from_path" }

TakesAddress(o) == o \in {"unpair_device", "pair", "connect", "disconnect"}

Entry(o) ==
    CASE o = "unpair_device" -> "unpair_scan"
      [] o = "pair" -> "pair_find"
      [] o = "connect" -> "connect_find"
      [] o = "disconnect" -> "disconnect_find"
      [] o = "start_discovery" -> "start_get"
      [] o = "stop_discovery" -> "stop_get"
      [] o = "register_agent" -> "register_agent"
      [] o = "get_paired_devices" -> "paired_scan"
      [] o = "get_discovered_devices" -> "discovered_scan"
      [] o = "get_device_address_from_path" -> "address_get"

Invoke ==
    /\ pc = "idle"
    /\ \E o \in Ops, a \in Addresses, p \in Paths \cup {None} :
        /\ TakesAddress(o) \/ a = "AA:BB"
        /\ (o = "get_device_address_from_path") <=> (p # None)
        /\ op' = o
        /\ address' = a
        /\ device_path' = p
        /\ pc' = Entry(o)
        /\ prev' = IF o = "start_discovery" /\ op = "start_discovery" /\ ~ghost.touched
                   THEN [valid |-> TRUE, disc0 |-> ghost.disc0, calls |-> calls]
                   ELSE NoPrev
    /\ ret' = "-"
    /\ retval' = <<>>
    /\ calls' = <<>>
    /\ ghost' = [carried |-> FALSE, under |-> FALSE, disc0 |-> discovering, touched |-> FALSE]
    /\ UNCHANGED <<tree, discovering, self, agent, proc, frame>>

(* the operation returns r (or raises, r = "Raised") after the D-Bus call c *)
Return(r, c) ==
    /\ pc' = "idle"
    /\ ret' = r
    /\ calls' = Append(calls, c)

(* the operation goes on at label l after the D-Bus call c *)
Goto(l, c) ==
    /\ pc' = l
    /\ ret' = ret
    /\ calls' = Append(calls, c)

(* what the first scan saw in the daemon, whether or not the call failed *)
NoteScan ==
    ghost' = [ghost EXCEPT !.carried = Carried(address),
                           !.under = CarriedUnderBound(address)]

(* Properties.Get(Device1, name) on device_path: fails when the daemon has  *)
(* no such object any more.                                                 *)
CanReach(path) == path \in DOMAIN tree

Flag(b) == IF b THEN "T" ELSE "F"

(* what a failed call on a device object is noted with: "gone" when the     *)
(* daemon no longer had the object                                          *)
Failure(path) == IF CanReach(path) THEN "-" ELSE "gone"

-----------------------------------------------------------------------------
(* a first scan that forgets to compare the address *)
unpair_device_first_scan_any_address(objs, a, s) ==
    LET targets == { p \in DOMAIN objs :
                        /\ device_interface \in DOMAIN objs[p]
                        /\ startswith(p, s.adapter_path) }
    IN  IF targets = {}
        THEN {[pc |-> "idle", ret |-> "True", target |-> None]}
        ELSE {[pc |-> "unpair_remove", ret |-> "-", target |-> t] : t \in targets}

(* unpair_device, lines 221-229: the first scan.  The loop stops at the     *)
(* first match in the reply's order, which the daemon chooses.              *)
unpair_device_first_scan(objs, a, s) ==
    LET targets == { p \in DOMAIN objs :
                        /\ device_interface \in DOMAIN objs[p]
                        /\ dict_get(objs[p][device_interface], "Address", "None") = a
                        /\ startswith(p, s.adapter_path) }
    IN  IF targets = {}
        THEN {[pc |-> "idle", ret |-> "True", target |-> None]}
        ELSE {[pc |-> "unpair_remove", ret |-> "-", target |-> t] : t \in targets}

(* a second scan that looks only at the devices of the bound adapter *)
unpair_device_rescan_bound_only(objs, a) ==
    IF \E p \in DOMAIN objs :
          /\ device_interface \in DOMAIN objs[p]
          /\ dict_get(objs[p][device_interface], "Address", "None") = a
          /\ startswith(p, self.adapter_path)
    THEN "False"
    ELSE "True"

(* unpair_device, lines 233-239: the scan after RemoveDevice *)
unpair_device_rescan(objs, a) ==
    IF \E p \in DOMAIN objs :
          /\ device_interface \in DOMAIN objs[p]
          /\ dict_get(objs[p][device_interface], "Address", "None") = a
    THEN "False"
    ELSE "True"

(* unpair_device, lines 240-242: the except clause *)
unpair_device_except == "False"

unpair_device_scan ==
    /\ pc = "unpair_scan"
    /\ NoteScan
    /\ \E fault \in BOOLEAN :
        IF fault
        THEN /\ Return(unpair_device_except, Call_rec("GetManagedObjects", FALSE, "-"))
             /\ device_path' = device_path
        ELSE \E o \in unpair_device_first_scan(GetManagedObjects, address, self) :
                /\ pc' = o.pc
                /\ ret' = o.ret
                /\ device_path' = o.target
                /\ calls' = Append(calls, Call_rec("GetManagedObjects", TRUE, "-"))
    /\ UNCHANGED <<tree, discovering, self, op, address, retval, prev, agent, proc, frame>>

(* Adapter1.RemoveDevice(path) of the bound adapter: the daemon removes a   *)
(* device of that adapter and fails for any other path.                     *)
unpair_device_remove ==
    /\ pc = "unpair_remove"
    /\ \E fault \in BOOLEAN :
        IF fault \/ device_path \notin DOMAIN tree
                 \/ AdapterOf(device_path) # self.adapter_path
        THEN /\ Return(unpair_device_except, Call_rec("RemoveDevice", FALSE, Failure(device_path)))
             /\ tree' = tree
        ELSE /\ Goto("unpair_rescan", Call_rec("RemoveDevice", TRUE, "-"))
             /\ tree' = [p \in DOMAIN tree \ {device_path} |-> tree[p]]
    /\ UNCHANGED <<discovering, self, op, address, device_path, retval, ghost, prev, agent, proc, frame>>

unpair_device_check ==
    /\ pc = "unpair_rescan"
    /\ \E fault \in BOOLEAN :
        IF fault
        THEN Return(unpair_device_except, Call_rec("GetManagedObjects", FALSE, "-"))
        ELSE Return(unpair_device_rescan(GetManagedObjects, address),
                    Call_rec("GetManagedObjects", TRUE,
                             IF Carried(address) THEN "T" ELSE "F"))
    /\ UNCHANGED <<tree, discovering, self, op, address, device_path, retval, ghost,
                   prev, agent, proc, frame>>

unpair_device == unpair_device_scan \/ unpair_device_remove \/ unpair_device_check

-----------------------------------------------------------------------------
(* a find_device_path that matches the adapter path as a prefix, without   *)
(* the "/" that ends the interface name                                    *)
find_device_path_prefix(objs, a, s) ==
    LET found == { p \in DOMAIN objs :
                      /\ device_interface \in DOMAIN objs[p]
                      /\ startswith(p, s.adapter_path)
                      /\ dict_get(objs[p][device_interface], "Address", "None") = a }
    IN  IF found = {} THEN {None} ELSE found

(* find_device_path, lines 104-112: the values it can return for a reply.   *)
(* It returns at the first match in the reply's order; with no match the    *)
(* function falls off its end and returns None.                             *)
find_device_path(objs, a, s) ==
    LET formatted_interface_path == bluez_path \o <<"/">> \o s.interface \o <<"/">>
        found == { p \in DOMAIN objs :
                      /\ device_interface \in DOMAIN objs[p]
                      /\ str_contains(formatted_interface_path, p)
                      /\ dict_get(objs[p][device_interface], "Address", "None") = a }
    IN  IF found = {} THEN {None} ELSE found

(* find_device_path has no try block and neither have its callers around    *)
(* it: a DBusException of GetManagedObjects leaves the public operation.    *)
find_device_path_fault == "Raised"

(* the first step of pair, connect and disconnect: device_path = find_device_path(address) *)
Resolve(label, not_found) ==
    /\ NoteScan
    /\ \E fault \in BOOLEAN :
        IF fault
        THEN /\ Return(find_device_path_fault, Call_rec("GetManagedObjects", FALSE, "-"))
             /\ device_path' = device_path
        ELSE \E path \in find_device_path(GetManagedObjects, address, self) :
                /\ device_path' = path
                /\ IF path = None
                   THEN Return(not_found, Call_rec("GetManagedObjects", TRUE, "None"))
                   ELSE Goto(label, Call_rec("GetManagedObjects", TRUE, "path"))
    /\ UNCHANGED <<tree, discovering, self, op, address, retval, prev, agent, proc, frame>>

-----------------------------------------------------------------------------
(* pair, lines 135-137 *)
pair_not_found == "False"

(* a pair that does not short-circuit on an already paired device *)
pair_first_read_ignored(paired) == [pc |-> "pair_call", ret |-> "-"]

(* pair, lines 142-146: after the first read of Paired *)
pair_first_read(paired) ==
    IF paired THEN [pc |-> "idle", ret |-> "True"] ELSE [pc |-> "pair_call", ret |-> "-"]

(* a pair that trusts the return of Pair() *)
pair_second_read_trusting(paired) == "True"

(* pair, lines 148-153: after the read of Paired that follows Pair() *)
pair_second_read(paired) == IF paired THEN "True" ELSE "False"

(* a pair without the except clause: the fault leaves the operation *)
pair_except_reraised == "Raised"

(* pair, lines 154-155: the except clause logs and falls off the end *)
pair_except == "None"

pair_find ==
    /\ pc = "pair_find"
    /\ Resolve("pair_get", pair_not_found)

pair_get ==
    /\ pc = "pair_get"
    /\ \E fault \in BOOLEAN :
        IF fault \/ ~CanReach(device_path)
        THEN Return(pair_except, Call_rec("Get.Paired", FALSE, Failure(device_path)))
        ELSE LET o == pair_first_read(tree[device_path].Paired)
             IN  /\ pc' = o.pc
                 /\ ret' = o.ret
                 /\ calls' = Append(calls, Call_rec("Get.Paired", TRUE,
                                                    Flag(tree[device_path].Paired)))
    /\ UNCHANGED <<tree, discovering, self, op, address, device_path, retval, ghost,
                   prev, agent, proc, frame>>

(* Device1.Pair(): when it returns without error the daemon holds the bond *)
pair_call ==
    /\ pc = "pair_call"
    /\ \E fault \in BOOLEAN :
        IF fault \/ ~CanReach(device_path)
        THEN /\ Return(pair_except, Call_rec("Pair", FALSE, Failure(device_path)))
             /\ tree' = tree
        ELSE /\ Goto("pair_reget", Call_rec("Pair", TRUE, "-"))
             /\ tree' = [tree EXCEPT ![device_path].Paired = TRUE]
    /\ UNCHANGED <<discovering, self, op, address, device_path, retval, ghost, prev, agent, proc, frame>>

pair_reget ==
    /\ pc = "pair_reget"
    /\ \E fault \in BOOLEAN :
        IF fault \/ ~CanReach(device_path)
        THEN Return(pair_except, Call_rec("Get.Paired", FALSE, Failure(device_path)))
        ELSE Return(pair_second_read(tree[device_path].Paired),
                    Call_rec("Get.Paired", TRUE, Flag(tree[device_path].Paired)))
    /\ UNCHANGED <<tree, discovering, self, op, address, device_path, retval, ghost,
                   prev, agent, proc, frame>>

pair == pair_find \/ pair_get \/ pair_call \/ pair_reget

-----------------------------------------------------------------------------
(* connect, lines 179-181 *)
connect_not_found == "False"

(* connect, lines 172-175: `if connected: return True` has no else, the     *)
(* function falls off its end when the flag is unset.                       *)
connect_read(connected) == IF connected THEN "True" ELSE "None"

(* connect, lines 176-178 *)
connect_except == "False"

connect_find ==
    /\ pc = "connect_find"
    /\ Resolve("connect_call", connect_not_found)

(* Device1.Connect(): when it returns without error the link is up *)
connect_call ==
    /\ pc = "connect_call"
    /\ \E fault \in BOOLEAN :
        IF fault \/ ~CanReach(device_path)
        THEN /\ Return(connect_except, Call_rec("Connect", FALSE, Failure(device_path)))
             /\ tree' = tree
        ELSE /\ Goto("connect_get", Call_rec("Connect", TRUE, "-"))
             /\ tree' = [tree EXCEPT ![device_path].Connected = TRUE]
    /\ UNCHANGED <<discovering, self, op, address, device_path, retval, ghost, prev, agent, proc, frame>>

connect_get ==
    /\ pc = "connect_get"
    /\ \E fault \in BOOLEAN :
        IF fault \/ ~CanReach(device_path)
        THEN Return(connect_except, Call_rec("Get.Connected", FALSE, Failure(device_path)))
        ELSE Return(connect_read(tree[device_path].Connected),
                    Call_rec("Get.Connected", TRUE, Flag(tree[device_path].Connected)))
    /\ UNCHANGED <<tree, discovering, self, op, address, device_path, retval, ghost,
                   prev, agent, proc, frame>>

connect == connect_find \/ connect_call \/ connect_get

-----------------------------------------------------------------------------
(* disconnect, lines 205-208 *)
disconnect_not_found == "False"

(* disconnect, lines 197-202: after the read of Connected *)
disconnect_read(connected) ==
    IF ~connected THEN [pc |-> "idle", ret |-> "True"]
                  ELSE [pc |-> "disconnect_call", ret |-> "-"]

(* disconnect, line 202: returns True as soon as Disconnect() returned *)
disconnect_done == "True"

(* disconnect, lines 203-208 *)
disconnect_except == "False"

disconnect_find ==
    /\ pc = "disconnect_find"
    /\ Resolve("disconnect_get", disconnect_not_found)

disconnect_get ==
    /\ pc = "disconnect_get"
    /\ \E fault \in BOOLEAN :
        IF fault \/ ~CanReach(device_path)
        THEN Return(disconnect_except, Call_rec("Get.Connected", FALSE, Failure(device_path)))
        ELSE LET o == disconnect_read(tree[device_path].Connected)
             IN  /\ pc' = o.pc
                 /\ ret' = o.ret
                 /\ calls' = Append(calls, Call_rec("Get.Connected", TRUE,
                                                    Flag(tree[device_path].Connected)))
    /\ UNCHANGED <<tree, discovering, self, op, address, device_path, retval, ghost,
                   prev, agent, proc, frame>>

(* Device1.Disconnect(): when it returns without error the link is down *)
disconnect_call ==
    /\ pc = "disconnect_call"
    /\ \E fault \in BOOLEAN :
        IF fault \/ ~CanReach(device_path)
        THEN /\ Return(disconnect_except, Call_rec("Disconnect", FALSE, Failure(device_path)))
             /\ tree' = tree
        ELSE /\ Return(disconnect_done, Call_rec("Disconnect", TRUE, "-"))
             /\ tree' = [tree EXCEPT ![device_path].Connected = FALSE]
    /\ UNCHANGED <<discovering, self, op, address, device_path, retval, ghost, prev, agent, proc, frame>>

disconnect == disconnect_find \/ disconnect_get \/ disconnect_call

-----------------------------------------------------------------------------
(* a start_discovery that does not look at the flag *)
start_discovery_read_unchecked(flag) == [pc |-> "start_call", ret |-> "-"]

(* start_discovery, lines 54-58: after the read of Discovering *)
start_discovery_read(flag) ==
    IF ~flag THEN [pc |-> "start_call", ret |-> "-"] ELSE [pc |-> "idle", ret |-> "None"]

(* start_discovery has no return statement: it ends with None on every path, *)
(* the except clause of lines 59-60 included.                                *)
start_discovery_end == "None"

start_get ==
    /\ pc = "start_get"
    /\ \E fault \in BOOLEAN :
        IF fault
        THEN Return(start_discovery_end, Call_rec("Get.Discovering", FALSE, "-"))
        ELSE LET o == start_discovery_read(discovering)
             IN  /\ pc' = o.pc
                 /\ ret' = o.ret
                 /\ calls' = Append(calls, Call_rec("Get.Discovering", TRUE, Flag(discovering)))
    /\ UNCHANGED <<tree, discovering, self, op, address, device_path, retval, ghost,
                   prev, agent, proc, frame>>

(* Adapter1.StartDiscovery(): when it returns without error the adapter scans *)
start_call ==
    /\ pc = "start_call"
    /\ \E fault \in BOOLEAN :
        IF fault
        THEN /\ Return(start_discovery_end, Call_rec("StartDiscovery", FALSE, "-"))
             /\ discovering' = discovering
        ELSE /\ Return(start_discovery_end, Call_rec("StartDiscovery", TRUE, "-"))
             /\ discovering' = TRUE
    /\ UNCHANGED <<tree, self, op, address, device_path, retval, ghost, prev, agent, proc, frame>>

start_discovery == start_get \/ start_call

(* stop_discovery, lines 65-69: after the read of Discovering *)
stop_discovery_read(flag) ==
    IF flag THEN [pc |-> "stop_call", ret |-> "-"] ELSE [pc |-> "idle", ret |-> "None"]

(* stop_discovery ends with None on every path, lines 64-71 *)
stop_discovery_end == "None"

stop_get ==
    /\ pc = "stop_get"
    /\ \E fault \in BOOLEAN :
        IF fault
        THEN Return(stop_discovery_end, Call_rec("Get.Discovering", FALSE, "-"))
        ELSE LET o == stop_discovery_read(discovering)
             IN  /\ pc' = o.pc
                 /\ ret' = o.ret
                 /\ calls' = Append(calls, Call_rec("Get.Discovering", TRUE, Flag(discovering)))
    /\ UNCHANGED <<tree, discovering, self, op, address, device_path, retval, ghost,
                   prev, agent, proc, frame>>

(* Adapter1.StopDiscovery() *)
stop_call ==
    /\ pc = "stop_call"
    /\ \E fault \in BOOLEAN :
        IF fault
        THEN /\ Return(stop_discovery_end, Call_rec("StopDiscovery", FALSE, "-"))
             /\ discovering' = discovering
        ELSE /\ Return(stop_discovery_end, Call_rec("StopDiscovery", TRUE, "-"))
             /\ discovering' = FALSE
    /\ UNCHANGED <<tree, self, op, address, device_path, retval, ghost, prev, agent, proc, frame>>

stop_discovery == stop_get \/ stop_call

-----------------------------------------------------------------------------
(* register_agent, lines 116-120: the try block ends after the log line and *)
(* the function has no return statement on that path.                       *)
register_agent_done == "None"

(* register_agent, lines 121-123 *)
register_agent_except == "False"

(* AgentManager1.RegisterAgent(agent_path, capability) *)
register_agent_register ==
    /\ pc = "register_agent"
    /\ \E fault \in BOOLEAN :
        IF fault
        THEN Return(register_agent_except, Call_rec("RegisterAgent", FALSE, "-"))
        ELSE Goto("request_default", Call_rec("RegisterAgent", TRUE, "-"))
    /\ UNCHANGED <<tree, discovering, self, op, address, device_path, retval, ghost,
                   prev, agent, proc, frame>>

(* AgentManager1.RequestDefaultAgent(agent_path) *)
register_agent_default ==
    /\ pc = "request_default"
    /\ \E fault \in BOOLEAN :
        IF fault
        THEN Return(register_agent_except, Call_rec("RequestDefaultAgent", FALSE, "-"))
        ELSE Return(register_agent_done, Call_rec("RequestDefaultAgent", TRUE, "-"))
    /\ UNCHANGED <<tree, discovering, self, op, address, device_path, retval, ghost,
                   prev, agent, proc, frame>>

register_agent == register_agent_register \/ register_agent_default

-----------------------------------------------------------------------------
(* a get_paired_devices without the adapter filter *)
get_paired_devices_any_adapter(objs, s) ==
    LET kept == { p \in DOMAIN objs :
                     /\ device_interface \in DOMAIN objs[p]
                     /\ dict_get(objs[p][device_interface], "Paired", FALSE) }
        keys == { dict_get(objs[p][device_interface], "Address", "None") : p \in kept }
    IN  { m \in [keys -> {"N1", "Unknown"}] :
            \A a \in keys : \E p \in kept :
                /\ dict_get(objs[p][device_interface], "Address", "None") = a
                /\ m[a] = dict_get(objs[p][device_interface], "Name", "Unknown") }

(* get_paired_devices, lines 41-49: the mappings it can return for a reply. *)
(* Two entries with one address leave the name of the one iterated last.    *)
get_paired_devices(objs, s) ==
    LET kept == { p \in DOMAIN objs :
                     /\ device_interface \in DOMAIN objs[p]
                     /\ dict_get(objs[p][device_interface], "Paired", FALSE)
                     /\ dict_get(objs[p][device_interface], "Adapter", None) = s.adapter_path }
        keys == { dict_get(objs[p][device_interface], "Address", "None") : p \in kept }
    IN  { m \in [keys -> {"N1", "Unknown"}] :
            \A a \in keys : \E p \in kept :
                /\ dict_get(objs[p][device_interface], "Address", "None") = a
                /\ m[a] = dict_get(objs[p][device_interface], "Name", "Unknown") }

(* get_paired_devices has no try block *)
get_paired_devices_fault == "Raised"

paired_scan ==
    /\ pc = "paired_scan"
    /\ \E fault \in BOOLEAN :
        IF fault
        THEN /\ Return(get_paired_devices_fault, Call_rec("GetManagedObjects", FALSE, "-"))
             /\ retval' = retval
        ELSE \E m \in get_paired_devices(GetManagedObjects, self) :
                /\ Return("Value", Call_rec("GetManagedObjects", TRUE, "-"))
                /\ retval' = m
    /\ UNCHANGED <<tree, discovering, self, op, address, device_path, ghost, prev, agent, proc, frame>>

-----------------------------------------------------------------------------
(* get_discovered_devices, lines 79-93: the lists it can return for a       *)
(* reply, one per order in which the reply can enumerate the kept entries.  *)
(* An entry without an address is logged and left out.                      *)
get_discovered_devices(objs, s) ==
    LET kept == { p \in DOMAIN objs :
                     /\ device_interface \in DOMAIN objs[p]
                     /\ dict_get(objs[p][device_interface], "Adapter", None) = s.adapter_path
                     /\ dict_get(objs[p][device_interface], "Address", "None")
                            \notin {"None", ""} }
        entry(p) == [ path |-> p,
                      address |-> objs[p][device_interface]["Address"],
                      alias |-> dict_get(objs[p][device_interface], "Alias", "Unknown") ]
    IN  { l \in [1..Cardinality(kept) -> {entry(p) : p \in kept}] :
            \A p \in kept : \E i \in DOMAIN l : l[i] = entry(p) }

(* get_discovered_devices has no try block *)
get_discovered_devices_fault == "Raised"

discovered_scan ==
    /\ pc = "discovered_scan"
    /\ \E fault \in BOOLEAN :
        IF fault
        THEN /\ Return(get_discovered_devices_fault, Call_rec("GetManagedObjects", FALSE, "-"))
             /\ retval' = retval
        ELSE \E l \in get_discovered_devices(GetManagedObjects, self) :
                /\ Return("Value", Call_rec("GetManagedObjects", TRUE, "-"))
                /\ retval' = l
    /\ UNCHANGED <<tree, discovering, self, op, address, device_path, ghost, prev, agent, proc, frame>>

(* get_device_address_from_path, lines 271-275: str(address) *)
get_device_address_from_path_read(addr) == <<addr>>

(* get_device_address_from_path, lines 276-278: any Exception gives the     *)
(* "Unknown" string                                                         *)
get_device_address_from_path_except == <<"Unknown">>

address_get ==
    /\ pc = "address_get"
    /\ \E fault \in BOOLEAN :
        IF fault \/ ~CanReach(device_path)
        THEN /\ Return("Value", Call_rec("Get.Address", FALSE, "-"))
             /\ retval' = get_device_address_from_path_except
        ELSE /\ Return("Value", Call_rec("Get.Address", TRUE, "-"))
             /\ retval' = get_device_address_from_path_read(tree[device_path].Address)
    /\ UNCHANGED <<tree, discovering, self, op, address, device_path, ghost, prev, agent, proc, frame>>

-----------------------------------------------------------------------------
(* The daemon and the radio: devices are found and forgotten, bonds and     *)
(* links come and go, other clients start and stop discovery.               *)
DeviceAppears ==
    /\ \E p \in Paths \ DOMAIN tree, a \in Addresses :
        LET t == [q \in DOMAIN tree \cup {p} |->
                    IF q = p THEN [Address |-> a, Paired |-> FALSE, Connected |-> FALSE]
                             ELSE tree[q]]
        IN  /\ UniqueAddresses(t)
            /\ tree' = t
    /\ UNCHANGED <<discovering, self, pc, op, address, device_path, ret, retval, calls,
                   ghost, prev, agent, proc, frame>>

DeviceDisappears ==
    /\ \E p \in DOMAIN tree : tree' = [q \in DOMAIN tree \ {p} |-> tree[q]]
    /\ UNCHANGED <<discovering, self, pc, op, address, device_path, ret, retval, calls,
                   ghost, prev, agent, proc, frame>>

BondChanges ==
    /\ \E p \in DOMAIN tree : tree' = [tree EXCEPT ![p].Paired = ~tree[p].Paired]
    /\ UNCHANGED <<discovering, self, pc, op, address, device_path, ret, retval, calls,
                   ghost, prev, agent, proc, frame>>

LinkChanges ==
    /\ \E p \in DOMAIN tree : tree' = [tree EXCEPT ![p].Connected = ~tree[p].Connected]
    /\ UNCHANGED <<discovering, self, pc, op, address, device_path, ret, retval, calls,
                   ghost, prev, agent, proc, frame>>

DiscoveryChanges ==
    /\ discovering' = ~discovering
    /\ ghost' = [ghost EXCEPT !.touched = (op = "start_discovery")]
    /\ UNCHANGED <<tree, self, pc, op, address, device_path, ret, retval, calls, prev, agent, proc, frame>>

Daemon == DeviceAppears \/ DeviceDisappears \/ BondChanges \/ LinkChanges \/ DiscoveryChanges

-----------------------------------------------------------------------------
Next ==
    \/ Invoke
    \/ unpair_device
    \/ pair
    \/ connect
    \/ disconnect
    \/ start_discovery
    \/ stop_discovery
    \/ register_agent
    \/ paired_scan
    \/ discovered_scan
    \/ address_get
    \/ Daemon

Spec == Init /\ [][Next]_vars

-----------------------------------------------------------------------------
(* Agent (src/agent.py).  Python values are [t: type name, v: value]; a str *)
(* is a sequence of characters.                                             *)
py_none == [t |-> "NoneType", v |-> <<>>]
py_str(chars) == [t |-> "str", v |-> chars]
py_int(n) == [t |-> "int", v |-> n]
py_bool(b) == [t |-> "bool", v |-> b]

DigitChars == <<"0", "1", "2", "3", "4", "5", "6", "7", "8", "9">>

(* bool(x), the test of `if not x` *)
truthy(x) ==
    CASE x.t = "NoneType" -> FALSE
      [] x.t = "str" -> Len(x.v) > 0
      [] x.t = "int" -> x.v # 0
      [] x.t = "bool" -> x.v

RECURSIVE nat_str(_)
nat_str(n) ==
    IF n < 10 THEN <<DigitChars[n + 1]>>
    ELSE nat_str(n \div 10) \o <<DigitChars[(n % 10) + 1]>>

(* str(x) *)
str(x) ==
    CASE x.t = "str" -> x
      [] x.t = "int" -> py_str(IF x.v < 0 THEN <<"-">> \o nat_str(0 - x.v) ELSE nat_str(x.v))
      [] x.t = "bool" -> py_str(IF x.v THEN <<"T", "r", "u", "e">>
                                       ELSE <<"F", "a", "l", "s", "e">>)
      [] x.t = "NoneType" -> py_str(<<"N", "o", "n", "e">>)

(* what the host's ui_callback can answer *)
Answers ==
    { py_none,
      py_str(<<>>), py_str(<<"0", "0", "0", "0">>), py_str(<<"1", "2", "3", "4", "5", "6">>),
      py_str(<<"a", "b">>),
      py_int(0), py_int(123456), py_int(0 - 1),
      py_bool(FALSE), py_bool(TRUE) }

(* raise dbus.DBusException("org.bluez.Error.Rejected", message): the      *)
(* exception's class and the arguments the source gives it                 *)
Rejected(message) ==
    [kind |-> "raise", class |-> "DBusException",
     args |-> <<"org.bluez.Error.Rejected", message>>, value |-> py_none]

Returned(value) ==
    [kind |-> "return", class |-> "", args |-> <<>>, value |-> value]

Raised(class, message) ==
    [kind |-> "raise", class |-> class, args |-> <<message>>, value |-> py_none]

IsDigit(ch) == \E i \in 1..10 : DigitChars[i] = ch

DigitValue(ch) == (CHOOSE i \in 1..10 : DigitChars[i] = ch) - 1

RECURSIVE digits_value(_)
digits_value(chars) ==
    IF chars = <<>> THEN 0
    ELSE 10 * digits_value(SubSeq(chars, 1, Len(chars) - 1)) + DigitValue(chars[Len(chars)])

(* int(x): a str must be an optional sign and decimal digits *)
int(x) ==
    CASE x.t = "int" -> Returned(x)
      [] x.t = "bool" -> Returned(py_int(IF x.v THEN 1 ELSE 0))
      [] x.t = "str" ->
            LET signed == Len(x.v) > 0 /\ x.v[1] \in {"-", "+"}
                body == IF signed THEN Tail(x.v) ELSE x.v
            IN  IF body # <<>> /\ \A i \in 1..Len(body) : IsDigit(body[i])
                THEN Returned(py_int(IF signed /\ x.v[1] = "-"
                                     THEN 0 - digits_value(body) ELSE digits_value(body)))
                ELSE Raised("ValueError", "invalid literal for int()")
      [] x.t = "NoneType" -> Raised("TypeError", "int() argument must be a string or a number")

(* a RequestPinCode that tests `pin is None` *)
RequestPinCode_result_none_only(pin) ==
    IF pin = py_none THEN Rejected("User cancelled PIN input") ELSE Returned(str(pin))

(* RequestPinCode, lines 15-18, for the answer of ui_callback("pin", device) *)
RequestPinCode_result(pin) ==
    IF ~truthy(pin) THEN Rejected("User cancelled PIN input") ELSE Returned(str(pin))

(* RequestPasskey, lines 23-26, for the answer of ui_callback("passkey", device) *)
RequestPasskey_result(passkey) ==
    IF passkey = py_none THEN Rejected("User cancelled passkey input") ELSE int(passkey)

(* RequestConfirmation, lines 31-34 *)
RequestConfirmation_result(result) ==
    IF result = py_none THEN Rejected("User rejected confirmation request")
    ELSE Returned(py_none)

(* AuthorizeService, lines 49-52 *)
AuthorizeService_result(allow) ==
    IF allow = py_none THEN Rejected("User rejected the connection") ELSE Returned(py_none)

Passkeys == {0, 123456}
PinCodes == {<<"0", "0", "0", "0">>}
Uuids == {"110a", "110b"}

(* one invocation of an Agent method by the daemon: the kind tag and the    *)
(* arguments handed to ui_callback, its answer, and how the method ended   *)
AgentCalled(method, asked, device, args, answer, result) ==
    [method |-> method, asked |-> asked, device |-> device, args |-> args,
     answer |-> answer, result |-> result]

RequestPinCode ==
    \E device \in Paths, pin \in Answers :
        /\ UNCHANGED <<mgr_vars, proc, frame>>
        /\ agent' = AgentCalled("RequestPinCode", "pin", device, <<>>, pin,
                                RequestPinCode_result(pin))

RequestPasskey ==
    \E device \in Paths, passkey \in Answers :
        /\ UNCHANGED <<mgr_vars, proc, frame>>
        /\ agent' = AgentCalled("RequestPasskey", "passkey", device, <<>>, passkey,
                    RequestPasskey_result(passkey))

RequestConfirmation ==
    \E device \in Paths, passkey \in Passkeys, result \in Answers :
        /\ UNCHANGED <<mgr_vars, proc, frame>>
        /\ agent' = AgentCalled("RequestConfirmation", "confirm", device, <<passkey>>, result,
                    RequestConfirmation_result(result))

(* DisplayPinCode, lines 38-39: forwards to the callback, returns nothing *)
DisplayPinCode ==
    \E device \in Paths, pincode \in PinCodes, answer \in Answers :
        /\ UNCHANGED <<mgr_vars, proc, frame>>
        /\ agent' = AgentCalled("DisplayPinCode", "display_pin", device, <<pincode>>, answer,
                    Returned(py_none))

(* DisplayPasskey, lines 43-44 *)
DisplayPasskey ==
    \E device \in Paths, passkey \in Passkeys, entered \in {0, 6}, answer \in Answers :
        /\ UNCHANGED <<mgr_vars, proc, frame>>
        /\ agent' = AgentCalled("DisplayPasskey", "display_passkey", device, <<passkey, entered>>,
                    answer, Returned(py_none))

AuthorizeService ==
    \E device \in Paths, uuid \in Uuids, allow \in Answers :
        /\ UNCHANGED <<mgr_vars, proc, frame>>
        /\ agent' = AgentCalled("AuthorizeService", "authorize", device, <<uuid>>, allow,
                    AuthorizeService_result(allow))

(* Cancel, lines 55-56: logs, asks nothing *)
Cancel ==
    /\ UNCHANGED <<mgr_vars, proc, frame>>
    /\ agent' = AgentCalled("Cancel", "", None, <<>>, py_none, Returned(py_none))

InitAgent ==
    /\ tree = <<>>
    /\ discovering = FALSE
    /\ self = NewManager(<<"hci1">>)
    /\ pc = "idle"
    /\ op = "none"
    /\ address = "AA:BB"
    /\ device_path = None
    /\ ret = "-"
    /\ retval = <<>>
    /\ calls = <<>>
    /\ ghost = [carried |-> FALSE, under |-> FALSE, disc0 |-> FALSE, touched |-> FALSE]
    /\ prev = NoPrev
    /\ agent = NoAgent
    /\ proc = NoProc
    /\ frame = NoFrame

NextAgent ==
    \/ RequestPinCode
    \/ RequestPasskey
    \/ RequestConfirmation
    \/ DisplayPinCode
    \/ DisplayPasskey
    \/ AuthorizeService
    \/ Cancel

SpecAgent == InitAgent /\ [][NextAgent]_vars

-----------------------------------------------------------------------------
(* run (src/utils.py).  Bytes are numbers, text is a sequence of            *)
(* characters; time is counted in seconds.                                  *)

(* the timeout of proc.communicate, line 58 *)
communicate_timeout == 600

(* the characters the commands here write, by their UTF-8 byte *)
ascii == (10 :> "\n") @@ (32 :> " ") @@ (101 :> "e") @@ (111 :> "o")

(* str.encode() *)
encode(text) == [i \in 1..Len(text) |-> CHOOSE b \in DOMAIN ascii : ascii[b] = text[i]]

(* bytes.decode("utf-8") raises UnicodeDecodeError on a byte that starts no *)
(* character                                                                *)
decodable(bytes) == \A i \in 1..Len(bytes) : bytes[i] \in DOMAIN ascii

decode(bytes) == [i \in 1..Len(bytes) |-> ascii[bytes[i]]]

RECURSIVE lstrip(_)
lstrip(text) ==
    IF text # <<>> /\ text[1] \in {" ", "\n"} THEN lstrip(Tail(text)) ELSE text

RECURSIVE rstrip(_)
rstrip(text) ==
    IF text # <<>> /\ text[Len(text)] \in {" ", "\n"}
    THEN rstrip(SubSeq(text, 1, Len(text) - 1))
    ELSE text

(* str.strip() *)
strip(text) == rstrip(lstrip(text))

(* the Result object, lines 9-23 *)
Result(command, stdout, stderr, pid, exit_status) ==
    [command |-> command, stdout |-> stdout, stderr |-> stderr, pid |-> pid,
     exit_status |-> exit_status]

NoResult == Result("", <<>>, <<>>, 0, 0)

Commands == {"hciconfig -a", "hcidump"}
LogFiles == {None, <<"bluetoothd.log">>}
InputData == {<<>>, <<"o", "\n">>}
Pids == {4001, 4002}

(* what a command can have written to a pipe when it exits *)
OutBytes == {<<>>, <<111>>, <<32, 111, 10>>, <<255>>}

ExitCodes == {0, 1}

(* a call of run(log, command, logfile, subprocess_data, block) *)
run_enter ==
    /\ frame.pc \in {"none", "returned", "raised"}
    /\ \E command \in Commands, logfile \in LogFiles, subprocess_data \in InputData,
          block \in BOOLEAN :
        frame' = [pc |-> "Popen", command |-> command, logfile |-> logfile,
                  subprocess_data |-> subprocess_data, block |-> block,
                  clock |-> 0, ret |-> "-", result |-> NoResult]
    /\ UNCHANGED <<mgr_vars, agent, proc>>

(* subprocess.Popen(command, ...) of lines 50, 53 and 56 *)
Popen(command, pid, stdout, shell) ==
    [state |-> "running", command |-> command, pid |-> pid, stdout |-> stdout,
     shell |-> shell, stdin |-> <<>>, out |-> <<>>, err |-> <<>>, returncode |-> 0]

(* run, lines 49-58: the process is spawned; a call that does not block or  *)
(* that names a log file returns the Popen object at once; otherwise        *)
(* communicate() writes the input and starts to wait.                       *)
run_spawn ==
    /\ frame.pc = "Popen"
    /\ \E pid \in Pids :
        IF ~frame.block
        THEN /\ proc' = Popen(frame.command, pid, "DEVNULL", FALSE)
             /\ frame' = [frame EXCEPT !.pc = "returned", !.ret = "proc"]
        ELSE IF frame.logfile # None
        THEN /\ proc' = Popen(frame.command, pid, "file", TRUE)
             /\ frame' = [frame EXCEPT !.pc = "returned", !.ret = "proc"]
        ELSE /\ proc' = [Popen(frame.command, pid, "PIPE", TRUE)
                            EXCEPT !.stdin = encode(frame.subprocess_data)]
             /\ frame' = [frame EXCEPT !.pc = "communicate"]
    /\ UNCHANGED <<mgr_vars, agent>>

(* the spawned command ends by itself *)
proc_exits ==
    /\ proc.state = "running"
    /\ \E code \in ExitCodes, out \in OutBytes, err \in OutBytes :
        /\ (proc.stdout # "PIPE") => (out = <<>> /\ err = <<>>)
        /\ proc' = [proc EXCEPT !.state = "exited", !.returncode = code,
                                !.out = out, !.err = err]
    /\ UNCHANGED <<mgr_vars, agent, frame>>

(* time passes while communicate() waits for the command *)
run_wait ==
    /\ frame.pc = "communicate"
    /\ proc.state = "running"
    /\ frame.clock < communicate_timeout
    /\ \E t \in (frame.clock + 1)..communicate_timeout :
        frame' = [frame EXCEPT !.clock = t]
    /\ UNCHANGED <<mgr_vars, agent, proc>>

(* run, lines 60-64, after communicate() returned (out, err) *)
run_result(p, command) ==
    IF decodable(p.out) /\ decodable(p.err)
    THEN [pc |-> "returned", ret |-> "Result",
          result |-> Result(command, strip(decode(p.out)), strip(decode(p.err)),
                            p.pid, p.returncode)]
    ELSE [pc |-> "raised", ret |-> "UnicodeDecodeError", result |-> NoResult]

run_communicate ==
    /\ frame.pc = "communicate"
    /\ proc.state = "exited"
    /\ LET o == run_result(proc, frame.command)
       IN  frame' = [frame EXCEPT !.pc = o.pc, !.ret = o.ret, !.result = o.result]
    /\ UNCHANGED <<mgr_vars, agent, proc>>

(* line 58: communicate(timeout=600) raises subprocess.TimeoutExpired when  *)
(* the command has not ended in time; it leaves the child as it is, and run *)
(* has no try block around it.                                              *)
run_timeout ==
    /\ frame.pc = "communicate"
    /\ proc.state = "running"
    /\ frame.clock = communicate_timeout
    /\ frame' = [frame EXCEPT !.pc = "raised", !.ret = "TimeoutExpired"]
    /\ UNCHANGED <<mgr_vars, agent, proc>>

InitRun ==
    /\ tree = <<>>
    /\ discovering = FALSE
    /\ self = NewManager(<<"hci1">>)
    /\ pc = "idle"
    /\ op = "none"
    /\ address = "AA:BB"
    /\ device_path = None
    /\ ret = "-"
    /\ retval = <<>>
    /\ calls = <<>>
    /\ ghost = [carried |-> FALSE, under |-> FALSE, disc0 |-> FALSE, touched |-> FALSE]
    /\ prev = NoPrev
    /\ agent = NoAgent
    /\ proc = NoProc
    /\ frame = NoFrame

NextRun ==
    \/ run_enter
    \/ run_spawn
    \/ proc_exits
    \/ run_wait
    \/ run_communicate
    \/ run_timeout

SpecRun == InitRun /\ [][NextRun]_vars

-----------------------------------------------------------------------------
(* Properties *)

(* operation o has run to its end *)
Done(o) == pc = "idle" /\ op = o /\ ret # "-"

(* how many times the running (or last) operation has called method m *)
Made(m) == Cardinality({i \in DOMAIN calls : calls[i].m = m})

AllOk(cs) == \A i \in DOMAIN cs : cs[i].ok

(* C1, as the spec states it: for every address that no device of the      *)
(* managed-object tree carries, unpair_device(address) returns True and     *)
(* never calls adapter.RemoveDevice.                                        *)
C1_AbsentReturnsTrue ==
    (op = "unpair_device" /\ calls # <<>> /\ ~ghost.carried)
        => (pc = "idle" /\ ret = "True" /\ Made("RemoveDevice") = 0)

(* C1, amended: for every address that no device of the tree carries,       *)
(* unpair_device(address) ends after its one scan without calling           *)
(* RemoveDevice; it returns True when the scan succeeded and False when the *)
(* scan raised a D-Bus fault.                                               *)
C1_AbsentNoRemoval ==
    (op = "unpair_device" /\ calls # <<>> /\ ~ghost.carried)
        => /\ pc = "idle"
           /\ Made("RemoveDevice") = 0
           /\ Len(calls) = 1
           /\ calls[1].ok => ret = "True"
           /\ ~calls[1].ok => ret = "False"

C1_Witness ==
    /\ Done("unpair_device")
    /\ ~ghost.carried
    /\ tree # <<>>
    /\ ret = "True"

(* C2: pair(address) on a device whose Paired flag is set when first read   *)
(* returns True and never calls the device's Pair method.                   *)
C2_AlreadyPaired ==
    (op = "pair" /\ Len(calls) >= 2 /\ calls[2].ok /\ calls[2].v = "T")
        => (pc = "idle" /\ ret = "True" /\ Made("Pair") = 0)

C2_Witness ==
    /\ Done("pair")
    /\ Len(calls) = 2
    /\ calls[2].ok
    /\ calls[2].v = "T"

(* two start_discovery() calls, one right after the other, on an adapter    *)
(* that was not discovering, with nobody else touching the flag meanwhile   *)
TwoStarts ==
    /\ Done("start_discovery")
    /\ prev.valid
    /\ ~prev.disc0
    /\ ~ghost.touched

StartsIssued ==
    Cardinality({i \in DOMAIN prev.calls : prev.calls[i].m = "StartDiscovery"})
        + Made("StartDiscovery")

C4_PairedUnderBoundOnly ==
    [][(pc = "paired_scan" /\ ret' = "Value")
        => \A a \in DOMAIN retval' :
              \E p \in DOMAIN tree : /\ tree[p].Address = a
                                     /\ tree[p].Paired
                                     /\ AdapterOf(p) = self.adapter_path]_vars

C4_Witness ==
    /\ Done("get_paired_devices")
    /\ ret = "Value"
    /\ DOMAIN retval # {}
    /\ \E p \in DOMAIN tree : /\ tree[p].Paired
                              /\ AdapterOf(p) # self.adapter_path
                              /\ tree[p].Address \notin DOMAIN retval

(* C5: connect(address) for an address that resolves to no device path      *)
(* under the bound adapter (the scan answered and no device of the bound    *)
(* adapter carries the address) returns False and never calls Connect.      *)
C5_ConnectNotFound ==
    (op = "connect" /\ calls # <<>> /\ calls[1].ok /\ ~ghost.under)
        => (pc = "idle" /\ ret = "False" /\ Made("Connect") = 0)

C5_Witness ==
    /\ Done("connect")
    /\ calls[1].ok
    /\ ~ghost.under
    /\ ghost.carried
    /\ ret = "False"

(* C6: RequestPinCode fails with org.bluez.Error.Rejected when the callback *)
(* answers the "pin" request with None or the empty string, and returns the *)
(* answer as a str when the answer is non-empty.                            *)
C6_PinRejectedOrString ==
    (agent.method = "RequestPinCode")
        => /\ agent.asked = "pin"
           /\ (agent.answer = py_none \/ agent.answer = py_str(<<>>))
                 => /\ agent.result.kind = "raise"
                    /\ agent.result.class = "DBusException"
                    /\ agent.result.args[1] = "org.bluez.Error.Rejected"
           /\ (agent.answer.t = "str" /\ agent.answer.v # <<>>)
                 => agent.result = Returned(agent.answer)
           /\ (agent.answer.t = "int" /\ agent.answer.v # 0)
                 => /\ agent.result.kind = "return"
                    /\ agent.result.value.t = "str"
                    /\ int(agent.result.value) = Returned(agent.answer)
           /\ (agent.answer = py_bool(TRUE))
                 => agent.result = Returned(py_str(<<"T", "r", "u", "e">>))

C6_Witness ==
    /\ agent.method = "RequestPinCode"
    /\ agent.answer = py_str(<<>>)
    /\ agent.result.kind = "raise"

(* C7, as the spec states it: register_agent returns False when             *)
(* RegisterAgent or RequestDefaultAgent raises a D-Bus failure and True in  *)
(* every other case.                                                        *)
C7_RegisterAgentBoolean ==
    Done("register_agent") => /\ ~AllOk(calls) => ret = "False"
                              /\ AllOk(calls) => ret = "True"

C9_ConnectBoolean ==
    (Done("connect") /\ calls[1].ok)
        => /\ ret \in {"True", "False"}
           /\ ret = "True" <=> (Len(calls) = 3 /\ calls[3].ok /\ calls[3].v = "T")

(* C10: when a device of the bound adapter carries the address,             *)
(* unpair_device(address) calls RemoveDevice once and scans again: it       *)
(* returns True only if no device with the address is in the second scan,   *)
(* and False if one is or if a D-Bus fault occurred at any step.            *)
C10_UnpairConfirmed ==
    (op = "unpair_device" /\ calls # <<>> /\ ghost.under)
        => /\ Made("RemoveDevice") <= 1
           /\ (calls[1].ok /\ Len(calls) >= 2) => calls[2].m = "RemoveDevice"
           /\ (calls[1].ok /\ pc = "idle") => Made("RemoveDevice") = 1
           /\ pc = "idle"
                => /\ ret \in {"True", "False"}
                   /\ ret = "True" <=> (Len(calls) = 3 /\ AllOk(calls) /\ calls[3].v = "F")

C10_Witness ==
    /\ Done("unpair_device")
    /\ ghost.under
    /\ Len(calls) = 3
    /\ ret = "True"

(* C11, as the spec states it: a fault raised by a D-Bus call made inside a *)
(* public operation of the manager is caught inside the operation and       *)
(* turned into False or a sentinel; it never leaves the operation as an     *)
(* exception, the GetManagedObjects scan that resolves the device path      *)
(* included.                                                                *)
C11_FaultNeverRaised ==
    (pc = "idle" /\ calls # <<>> /\ ~AllOk(calls)) => ret # "Raised"

(* C12, as the spec states it: RequestPasskey fails with                    *)
(* org.bluez.Error.Rejected whenever the callback answers the "passkey"     *)
(* request with None or an empty result, and otherwise returns the answer   *)
(* as an unsigned integer; no answer makes it fail with another error.      *)
C12_PasskeyRejectedOrUint ==
    (agent.method = "RequestPasskey")
        => /\ agent.asked = "passkey"
           /\ (agent.answer = py_none \/ agent.answer = py_str(<<>>))
                 => agent.result = Rejected("User cancelled passkey input")
           /\ ~(agent.answer = py_none \/ agent.answer = py_str(<<>>))
                 => /\ agent.result.kind = "return"
                    /\ agent.result.value.t = "int"
                    /\ agent.result.value.v >= 0
           /\ agent.result.kind = "raise"
                 => /\ agent.result.class = "DBusException"
                    /\ agent.result.args[1] = "org.bluez.Error.Rejected"

(* C13, as the spec states it: AuthorizeService fails with                  *)
(* org.bluez.Error.Rejected whenever the callback denies the "authorize"    *)
(* request (answers None or a false value) and completes only when the      *)
(* callback allowed it.                                                     *)
C13_AuthorizeOnlyWhenAllowed ==
    (agent.method = "AuthorizeService")
        => /\ agent.asked = "authorize"
           /\ ~truthy(agent.answer)
                 => agent.result = Rejected("User rejected the connection")
           /\ agent.result.kind = "return" => truthy(agent.answer)

(* C14, as the spec states it: when a blocking run() without a log file     *)
(* exceeds the 600 s ceiling, run fails with a timeout and the spawned      *)
(* process is terminated: in no state has run failed with the timeout while *)
(* the command it spawned is still running.                                 *)
C14_TimeoutTerminates ==
    (frame.pc = "raised" /\ frame.ret = "TimeoutExpired") => proc.state # "running"

(* the call each mutating operation makes on the stack *)
StackCall(o) ==
    CASE o = "pair" -> "Pair"
      [] o = "connect" -> "Connect"
      [] o = "disconnect" -> "Disconnect"
      [] o = "unpair_device" -> "RemoveDevice"
      [] OTHER -> "-"

(* call c is a read that shows the post-condition of operation o *)
Confirms(o, c) ==
    /\ c.ok
    /\ CASE o = "pair" -> c.m = "Get.Paired" /\ c.v = "T"
         [] o = "connect" -> c.m = "Get.Connected" /\ c.v = "T"
         [] o = "disconnect" -> c.m = "Get.Connected" /\ c.v = "F"
         [] o = "unpair_device" -> c.m = "GetManagedObjects" /\ c.v = "F"
         [] OTHER -> FALSE

(* C15, as the spec states it: pair, connect, disconnect and unpair_device  *)
(* read the relevant state (Paired, Connected, presence in the tree) after  *)
(* their stack call and report success only if that read confirms the       *)
(* post-condition; disconnect on a connected device returns True only if    *)
(* Connected reads unset after the Disconnect call.                         *)
C15_SuccessReverified ==
    (pc = "idle" /\ ret = "True" /\ Made(StackCall(op)) >= 1)
        => /\ calls[Len(calls) - 1].m = StackCall(op)
           /\ calls[Len(calls) - 1].ok
           /\ Confirms(op, calls[Len(calls)])

Mutating(o) == o \in {"pair", "connect", "disconnect", "unpair_device"}

(* C16: across any sequence of pair, connect, disconnect and unpair_device  *)
(* calls, with devices appearing and disappearing meanwhile, each call      *)
(* starts without a device path and takes the one it uses from its own scan *)
(* for the address, the fields of the manager stay as __init__ set them     *)
(* (no device path is stored), and a call on a device that has disappeared  *)
(* since the path was resolved ends the operation with False or None,       *)
(* neither True nor an exception.                                           *)
C16_FreshPathEachCall ==
    /\ self = NewManager(self.interface)
    /\ Mutating(op)
         => /\ calls = <<>> => device_path = None
            /\ calls # <<>> => calls[1].m = "GetManagedObjects"
            /\ device_path # None => (calls # <<>> /\ calls[1].ok)
            /\ \A i \in DOMAIN calls :
                  calls[i].v = "gone"
                      => /\ i = Len(calls)
                         /\ i > 1
                         /\ pc = "idle"
                         /\ ret \in {"False", "None"}

C16_Witness ==
    /\ Done("pair")
    /\ Len(calls) = 3
    /\ calls[2].v = "F"
    /\ calls[3].m = "Pair"
    /\ calls[3].v = "gone"
    /\ ret = "None"
    /\ device_path \notin DOMAIN tree

(* C17, as stated: the result of unpair_device(address) depends only on the *)
(* devices of the bound adapter: when RemoveDevice succeeded and the second *)
(* scan answers with no device of the bound adapter carrying the address,   *)
(* unpair_device returns True, also when a device of another adapter still  *)
(* carries the address.                                                     *)
C17_BoundAdapterOnly ==
    [][(/\ pc = "unpair_rescan"
        /\ pc' = "idle"
        /\ calls'[Len(calls')].ok
        /\ ~CarriedUnderBound(address)) => ret' = "True"]_vars

====
